---- MODULE Spec2Model ----
(***************************************************************************)
(* A model of the two decision engines of the ai-services package:         *)
(*   - services/recommendation.py : RecommendationService                  *)
(*   - services/sentiment.py      : SentimentService                       *)
(* Scores and confidences are Python floats in the source.  Course and     *)
(* news scores are modelled in thousandths (0.3 is 300), sentiment         *)
(* confidences as exact fractions <<numerator, denominator>>.              *)
(***************************************************************************)
EXTENDS Integers, Sequences, FiniteSets, TLC

VARIABLES
    rankIn,         \* arguments of a _rank_recommendations call: [recs, limit]
    rankOut,        \* its return value, or NotRun before the call
    db,             \* what the relational queries return (source of truth)
    profileCache,   \* redis keys "user_profile:<user_id>": user_id -> blob
    recCache,       \* redis keys "recommendations:<user_id>": user_id -> blob
    feedbackStore,  \* redis keys "feedback:<user_id>:<item_id>": pair -> blob
    recOut,         \* the last RecommendationService call and its outcome
    ensIn,          \* what the four backends answer for one text
    ensOut,         \* the adapters' verdicts on it and their ensemble
    world,          \* how the sentiment backends behave in this run
    sentCache,      \* redis keys "sentiment:<hash>:<model_type>": pair -> blob
    sentOut,        \* the last analyze_sentiment call and its outcome
    now,            \* what datetime.now() reads, in whole time steps
    batch,          \* the analyze_batch_sentiment call in progress, if any
    callIn,         \* the arguments of a call of one of the services' helpers
    callOut,        \* what that call returned, once it has
    threads,        \* each request thread: where it stands in its call, its locals
    feedbackLog     \* history: feedback calls begun and completed, and how many
                    \* had begun when each cached ranked set was computed

rankVars == <<rankIn, rankOut>>
recVars == <<db, profileCache, recCache, feedbackStore, recOut>>
ensVars == <<ensIn, ensOut>>
sentVars == <<world, sentCache, sentOut, now, batch>>
helperVars == <<callIn, callOut>>
concVars == <<threads, feedbackLog>>
vars == <<rankIn, rankOut, db, profileCache, recCache, feedbackStore, recOut,
          ensIn, ensOut, world, sentCache, sentOut, now, batch, callIn, callOut,
          threads, feedbackLog>>

NotRun == "not_run"

(***************************************************************************)
(* Bounds of the explored inputs.                                          *)
(***************************************************************************)
MaxLen == 4         \* longest candidate list drawn for the ranker
MaxLimit == 5       \* largest limit drawn for the ranker

ItemTypes == {"course", "news"}
RankIds == {1, 2}
RankScores == {800, 900}

(***************************************************************************)
(* Generic sequence helpers.                                               *)
(***************************************************************************)
SeqsUpTo(S, n) == UNION {[1..k -> S] : k \in 0..n}

RECURSIVE CountType(_, _)
CountType(s, t) ==
    IF s = <<>> THEN 0
    ELSE (IF Head(s).item_type = t THEN 1 ELSE 0) + CountType(Tail(s), t)

(***************************************************************************)
(* sorted(recommendations, key=score, reverse=True): Python's sort is      *)
(* stable, also with reverse=True, so an element goes behind every element *)
(* already placed whose score is greater or equal.                         *)
(***************************************************************************)
\* A sort that is not stable: an element goes in front of its equals.
RECURSIVE InsertByScoreDescUnstable(_, _)
InsertByScoreDescUnstable(sorted, rec) ==
    IF sorted = <<>> THEN <<rec>>
    ELSE IF Head(sorted).score > rec.score
         THEN <<Head(sorted)>> \o InsertByScoreDescUnstable(Tail(sorted), rec)
         ELSE <<rec>> \o sorted

RECURSIVE InsertByScoreDesc(_, _)
InsertByScoreDesc(sorted, rec) ==
    IF sorted = <<>> THEN <<rec>>
    ELSE IF Head(sorted).score >= rec.score
         THEN <<Head(sorted)>> \o InsertByScoreDesc(Tail(sorted), rec)
         ELSE <<rec>> \o sorted

RECURSIVE SortByScoreDescFrom(_, _)
SortByScoreDescFrom(sorted, rest) ==
    IF rest = <<>> THEN sorted
    ELSE SortByScoreDescFrom(InsertByScoreDesc(sorted, Head(rest)), Tail(rest))

sorted_by_score_desc(recs) == SortByScoreDescFrom(<<>>, recs)

(***************************************************************************)
(* The diversity test of _rank_recommendations, line 320:                  *)
(*     type_counts[item_type] < limit * 0.6                                *)
(* an int compared with a float.  0.6 as a double lies just below 3/5 and  *)
(* limit*0.6 never rounds above the exact product, so for every limit the  *)
(* comparison decides as the exact  count * 10 < limit * 6.                *)
(***************************************************************************)
\* The quota test with <= for <, and with 0.8 for 0.6.
under_type_quota_inclusive(count, limit) == count * 10 <= limit * 6

under_type_quota_wide(count, limit) == count * 10 < limit * 8

under_type_quota(count, limit) == count * 10 < limit * 6

\* The loop of lines 315-322 over the sorted list.
RECURSIVE rank_walk(_, _, _, _)
rank_walk(ranked, final, type_counts, limit) ==
    IF ranked = <<>> THEN final
    ELSE LET rec == Head(ranked)
             item_type == rec.item_type
         IN IF Len(final) < limit /\ under_type_quota(type_counts[item_type], limit)
            THEN rank_walk(Tail(ranked), Append(final, rec),
                           [type_counts EXCEPT ![item_type] = @ + 1], limit)
            ELSE rank_walk(Tail(ranked), final, type_counts, limit)

\* _rank_recommendations(recommendations, user_profile, limit); the profile is unused.
rank_recommendations(recommendations, limit) ==
    rank_walk(sorted_by_score_desc(recommendations), <<>>,
              [t \in ItemTypes |-> 0], limit)

(***************************************************************************)
(* The variables of the recommendation service while another part of the   *)
(* package is explored.                                                    *)
(***************************************************************************)
\* A group of redis keys is a function from the keys that exist to their blobs.
NoKeys == <<>>

\* A store that never finds a key.
HoldsNothing(keys, k) == FALSE

Holds(keys, k) == k \in DOMAIN keys

redis_setex(keys, k, blob) ==
    [x \in DOMAIN keys \cup {k} |-> IF x = k THEN blob ELSE keys[x]]

\* A delete that empties the whole group of keys.
redis_delete_all(keys, k) == NoKeys

redis_delete(keys, k) == [x \in DOMAIN keys \ {k} |-> keys[x]]

\* No request is being served by one thread while another serves a second.
ConcIdle ==
    /\ threads = <<>>
    /\ feedbackLog = <<>>

\* No helper is being checked on its own.
HelperIdle ==
    /\ callIn = [fn |-> "none"]
    /\ callOut = [status |-> NotRun]

\* No SentimentService call has been made.
SentIdle ==
    /\ ensIn = NotRun
    /\ ensOut = [status |-> NotRun]
    /\ HelperIdle
    /\ world = NotRun
    /\ now = 0
    /\ batch = [pc |-> "idle"]
    /\ sentCache = NoKeys
    /\ sentOut = [op |-> "none"]

RecIdle ==
    /\ db = [courses |-> {}, news |-> <<>>, learning |-> <<>>, trading |-> <<>>]
    /\ profileCache = NoKeys
    /\ recCache = NoKeys
    /\ feedbackStore = NoKeys
    /\ recOut = [op |-> "none"]

(***************************************************************************)
(* The ranker on its own: every candidate list up to MaxLen and limit up   *)
(* to MaxLimit, and the 8-course / 2-news scenario with limit 10.          *)
(***************************************************************************)
Candidates ==
    [item_id : RankIds, item_type : ItemTypes, score : RankScores]

ScenarioLimit == 10

ScenarioRecs ==
    [i \in 1..10 |->
        IF i <= 8 THEN [item_id |-> i, item_type |-> "course", score |-> 900]
                  ELSE [item_id |-> i - 8, item_type |-> "news", score |-> 800]]

RankInputs ==
    {[recs |-> s, limit |-> l] : s \in SeqsUpTo(Candidates, MaxLen), l \in 0..MaxLimit}
        \cup {[recs |-> ScenarioRecs, limit |-> ScenarioLimit]}

InitRank ==
    /\ rankIn \in RankInputs
    /\ rankOut = NotRun
    /\ ConcIdle
    /\ RecIdle
    /\ SentIdle

RankCall ==
    /\ rankOut = NotRun
    /\ rankOut' = rank_recommendations(rankIn.recs, rankIn.limit)
    /\ UNCHANGED <<rankIn, recVars, ensVars, helperVars, concVars, sentVars>>

NextRank == RankCall

SpecRank == InitRank /\ [][NextRank]_vars

(***************************************************************************)
(* Claims about the ranker.                                                *)
(***************************************************************************)
\* ceil(limit * 0.6)
CeilQuota(limit) == (6 * limit + 9) \div 10

\* C1: for every candidate list and every limit >= 0 the list returned by
\* _rank_recommendations has at most `limit` items and at most
\* ceil(limit * 0.6) items of any single item_type.
C1_RankWithinLimitAndQuota ==
    rankOut # NotRun =>
        /\ Len(rankOut) <= rankIn.limit
        /\ \A t \in ItemTypes : CountType(rankOut, t) <= CeilQuota(rankIn.limit)

\* The quota, not the limit, turned a candidate away.
C1_Witness ==
    /\ rankOut # NotRun
    /\ Len(rankOut) < rankIn.limit
    /\ \E t \in ItemTypes :
          /\ CountType(rankOut, t) = CeilQuota(rankIn.limit)
          /\ CountType(rankIn.recs, t) > CeilQuota(rankIn.limit)

\* The reference walk of C2, stated by positions instead of by a loop:
\* candidate i stands before candidate j when its score is larger, or equal
\* with i earlier in the input.
RefPrecedes(recs, i, j) ==
    \/ recs[i].score > recs[j].score
    \/ recs[i].score = recs[j].score /\ i < j

RefPosition(recs, i) ==
    1 + Cardinality({j \in DOMAIN recs : RefPrecedes(recs, j, i)})

RefSorted(recs) ==
    [k \in 1..Len(recs) |->
        recs[CHOOSE i \in DOMAIN recs : RefPosition(recs, i) = k]]

\* The positions among the first k of the sorted list that are admitted.
RECURSIVE RefAdmitted(_, _, _)
RefAdmitted(sorted, limit, k) ==
    IF k = 0 THEN {}
    ELSE LET before == RefAdmitted(sorted, limit, k - 1)
             sameType == {p \in before : sorted[p].item_type = sorted[k].item_type}
         IN IF Cardinality(before) < limit /\ Cardinality(sameType) < CeilQuota(limit)
            THEN before \cup {k}
            ELSE before

RefRank(recs, limit) ==
    LET sorted == RefSorted(recs)
        adm == RefAdmitted(sorted, limit, Len(sorted))
    IN [n \in 1..Cardinality(adm) |->
           sorted[CHOOSE p \in adm : Cardinality({q \in adm : q <= p}) = n]]

ScenarioExpected ==
    [i \in 1..8 |->
        IF i <= 6 THEN [item_id |-> i, item_type |-> "course", score |-> 900]
                  ELSE [item_id |-> i - 6, item_type |-> "news", score |-> 800]]

\* C2: the result of _rank_recommendations equals the reference greedy walk
\* (stable sort by score descending, then admit exactly when fewer than
\* `limit` are admitted and the type's admitted count is below
\* ceil(limit * 0.6)); for limit 10 with 8 courses of score 0.9 and 2 news
\* of score 0.8 the result is 6 courses followed by the 2 news, length 8.
C2_RankEqualsReferenceWalk ==
    rankOut # NotRun =>
        /\ rankOut = RefRank(rankIn.recs, rankIn.limit)
        /\ (rankIn.recs = ScenarioRecs /\ rankIn.limit = ScenarioLimit)
               => rankOut = ScenarioExpected

\* The scenario has been ranked.
C2_Witness ==
    /\ rankOut # NotRun
    /\ rankIn.recs = ScenarioRecs
    /\ rankIn.limit = ScenarioLimit
    /\ Len(rankOut) = 8

RECURSIVE SumCompleted(_)
SumCompleted(rows) ==
    IF rows = <<>> THEN 0 ELSE Head(rows).completed_courses + SumCompleted(Tail(rows))

RECURSIVE SumScores(_)
SumScores(rows) ==
    IF rows = <<>> THEN 0 ELSE Head(rows).avg_score + SumScores(Tail(rows))

\* [item["avg_score"] for item in learning_data if item["avg_score"]]
TruthyScores(rows) == SelectSeq(rows, LAMBDA r : r.avg_score # 0)

\* np.mean(xs) >= bound; the mean of an empty list is nan and compares False.
MeanAtLeast(rows, bound) ==
    /\ Len(rows) > 0
    /\ SumScores(rows) >= bound * Len(rows)

determine_skill_level(learning_data) ==
    IF learning_data = <<>> THEN "beginner"
    ELSE LET total_courses == SumCompleted(learning_data)
             scored == TruthyScores(learning_data)
         IN IF total_courses >= 10 /\ MeanAtLeast(scored, 80) THEN "advanced"
            ELSE IF total_courses >= 5 /\ MeanAtLeast(scored, 70) THEN "intermediate"
            ELSE "beginner"

\* sorted(learning_data, key=completed_courses, reverse=True): stable.
RECURSIVE InsertByCompletedDesc(_, _)
InsertByCompletedDesc(sorted, row) ==
    IF sorted = <<>> THEN <<row>>
    ELSE IF Head(sorted).completed_courses >= row.completed_courses
         THEN <<Head(sorted)>> \o InsertByCompletedDesc(Tail(sorted), row)
         ELSE <<row>> \o sorted

RECURSIVE SortByCompletedDescFrom(_, _)
SortByCompletedDescFrom(sorted, rest) ==
    IF rest = <<>> THEN sorted
    ELSE SortByCompletedDescFrom(InsertByCompletedDesc(sorted, Head(rest)), Tail(rest))

\* s[:n]
\* A slice that keeps one element more than it was asked for.
TakeOneMore(s, n) == SubSeq(s, 1, IF n + 1 < Len(s) THEN n + 1 ELSE Len(s))

\* s[:n]: the first n elements, and for a negative n all but the last -n.
Take(s, n) ==
    IF n >= 0 THEN SubSeq(s, 1, IF n < Len(s) THEN n ELSE Len(s))
    ELSE SubSeq(s, 1, IF Len(s) + n > 0 THEN Len(s) + n ELSE 0)

get_preferred_categories(learning_data) ==
    IF learning_data = <<>> THEN <<>>
    ELSE LET sorted_categories == SortByCompletedDescFrom(<<>>, learning_data)
             top == Take(sorted_categories, 3)
         IN [i \in 1..Len(top) |-> top[i].category]

\* symbol.startswith("BANK"), symbol.startswith("IT") over the symbols drawn.
Symbols == {"BANKNIFTY", "ITC", "RELIANCE"}
StartsWithBANK(symbol) == symbol \in {"BANKNIFTY"}
StartsWithIT(symbol) == symbol \in {"ITC"}

extract_interests(learning_data, trading_data) ==
    {learning_data[i].category : i \in DOMAIN learning_data}
      \cup {"banking" : i \in {j \in DOMAIN trading_data :
                                  StartsWithBANK(trading_data[j].symbol)}}
      \cup {"technology" : i \in {j \in DOMAIN trading_data :
                                  /\ ~StartsWithBANK(trading_data[j].symbol)
                                  /\ StartsWithIT(trading_data[j].symbol)}}

\* The profile dict of lines 113-121 for a user the users table holds.
build_profile(user_id, rows) ==
    [user_data |-> [id |-> user_id],
     learning_progress |-> rows.learning[user_id],
     trading_behavior |-> rows.trading[user_id],
     interests |-> extract_interests(rows.learning[user_id], rows.trading[user_id]),
     skill_level |-> determine_skill_level(rows.learning[user_id]),
     risk_profile |-> "moderate",
     preferred_categories |-> get_preferred_categories(rows.learning[user_id])]

\* json.dumps / json.loads of a cached value: the value travels as a blob.
json_dumps(value) == [json |-> value]
json_loads(blob) == blob.json

(***************************************************************************)
(* RecommendationService: scoring, in thousandths.                         *)
(***************************************************************************)
Min(a, b) == IF a <= b THEN a ELSE b

InSeq(x, s) == \E i \in DOMAIN s : s[i] = x

\* level_mapping.get(level, 1)
\* A mapping that numbers the levels from the top.
level_mapping_reversed(level) ==
    CASE level = "beginner" -> 3
      [] level = "intermediate" -> 2
      [] level = "advanced" -> 1
      [] OTHER -> 3

level_mapping(level) ==
    CASE level = "beginner" -> 1
      [] level = "intermediate" -> 2
      [] level = "advanced" -> 3
      [] OTHER -> 1

\* course: [id, category, level, avg_rating (tenths of a star, 0 for NULL),
\*          review_count, days_old, language]
calculate_course_score(course, user_profile, preferences) ==
    LET user_level == level_mapping(user_profile.skill_level)
        course_level == level_mapping(course.level)
        categoryPart ==
            IF InSeq(course.category, user_profile.preferred_categories) THEN 300 ELSE 0
        levelPart ==
            IF course_level = user_level THEN 250
            ELSE IF course_level = user_level + 1 THEN 150
            ELSE IF course_level = user_level - 1 THEN 100
            ELSE 0
        ratingPart == course.avg_rating * 4            \* (rating / 5.0) * 0.2
        popularityPart == Min(course.review_count * 10, 100)
        recencyPart ==
            IF course.days_old < 30 THEN 100
            ELSE IF course.days_old < 90 THEN 50
            ELSE 0
        languagePart ==
            IF preferences.preferred_language = course.language THEN 100 ELSE 0
    IN Min(categoryPart + levelPart + ratingPart + popularityPart
             + recencyPart + languagePart, 1000)

FinanceCategories == {"stocks", "mutual_funds", "trading", "investment"}

\* article: [id, mentions (the interests its title and summary contain),
\*           category, sentiment, hours_old]
calculate_news_score(article, user_interests) ==
    LET interestPart == 300 * Cardinality(user_interests \cap article.mentions)
        categoryPart == IF article.category \in FinanceCategories THEN 200 ELSE 0
        sentimentPart ==
            IF article.sentiment = "positive" THEN 100
            ELSE IF article.sentiment = "neutral" THEN 50
            ELSE 0
        recencyPart ==
            IF article.hours_old < 24 THEN 200
            ELSE IF article.hours_old < 72 THEN 100
            ELSE 0
    IN Min(interestPart + categoryPart + sentimentPart + recencyPart, 1000)

\* _recommend_courses: `courses` is the query result in the order the
\* database returned it (the query has no ORDER BY).
recommend_courses(courses, user_profile, preferences, limit) ==
    IF courses = <<>> THEN <<>>
    ELSE LET course_scores ==
                 [i \in 1..Len(courses) |->
                     [item_id |-> courses[i].id,
                      item_type |-> "course",
                      score |-> calculate_course_score(courses[i], user_profile,
                                                       preferences)]]
         IN Take(sorted_by_score_desc(course_scores), limit)

\* _recommend_news: `news_articles` come ordered by published_at descending.
recommend_news(news_articles, user_profile, limit) ==
    IF news_articles = <<>> THEN <<>>
    ELSE LET news_scores ==
                 [i \in 1..Len(news_articles) |->
                     [item_id |-> news_articles[i].id,
                      item_type |-> "news",
                      score |-> calculate_news_score(news_articles[i],
                                                     user_profile.interests)]]
         IN Take(sorted_by_score_desc(news_scores), limit)

\* Lines 44-54 of get_recommendations, given the profile: the list handed to
\* the ranker.  limit // 2 rounds towards minus infinity, as \div does.
all_recommendations(user_profile, courses, news_articles, preferences, limit) ==
    LET course_recommendations ==
            recommend_courses(courses, user_profile, preferences, limit \div 2)
        news_recommendations ==
            recommend_news(news_articles, user_profile, limit \div 2)
    IN course_recommendations \o news_recommendations

\* Lines 44-57 of get_recommendations, given the profile.
compute_recommendations(user_profile, courses, news_articles, preferences, limit) ==
    rank_recommendations(all_recommendations(user_profile, courses, news_articles,
                                             preferences, limit), limit)

(***************************************************************************)
(* RecommendationService as a state machine over the database rows and the *)
(* redis keys.  Every redis command may raise (the store is unreachable or *)
(* refuses the write); `fault` names the first command of a call that does.*)
(***************************************************************************)
MaxRecLimit == 4    \* largest limit requested in get_recommendations

Users == {1, 2}
FeedbackItems == {1}
FeedbackTypes == {"like"}
Languages == {"en"}

CourseRows ==
    [id \in 1..2 |->
        IF id = 1
        THEN [id |-> 1, category |-> "stocks", level |-> "beginner",
              avg_rating |-> 45, review_count |-> 20, days_old |-> 10,
              language |-> "en"]
        ELSE [id |-> 2, category |-> "mutual_funds", level |-> "intermediate",
              avg_rating |-> 0, review_count |-> 0, days_old |-> 100,
              language |-> "hi"]]

NewsRows ==
    <<[id |-> 2, mentions |-> {"banking"}, category |-> "stocks",
       sentiment |-> "positive", hours_old |-> 5],
      [id |-> 1, mentions |-> {"stocks", "technology"}, category |-> "economy",
       sentiment |-> "negative", hours_old |-> 100]>>

NoHistory == [learning |-> <<>>, trading |-> <<>>]

SomeHistory ==
    [learning |-> <<[category |-> "stocks", level |-> "beginner",
                     completed_courses |-> 4, avg_score |-> 75],
                    [category |-> "stocks", level |-> "intermediate",
                     completed_courses |-> 2, avg_score |-> 75]>>,
     trading |-> <<[symbol |-> "BANKNIFTY"], [symbol |-> "RELIANCE"]>>]

\* User 1 has completed courses and traded, user 2 is new.
UserHistory == [u \in Users |-> IF u = 1 THEN SomeHistory ELSE NoHistory]

Databases ==
    {[courses |-> c, news |-> n,
      learning |-> [u \in Users |-> UserHistory[u].learning],
      trading |-> [u \in Users |-> UserHistory[u].trading]] :
        c \in {{}, {1, 2}}, n \in {<<>>, NewsRows}}

\* The orders in which a query without ORDER BY may return a set of rows.
Orderings(ids) ==
    {o \in [1..Cardinality(ids) -> ids] : \A i, j \in DOMAIN o : i # j => o[i] # o[j]}

InitRec ==
    /\ db \in Databases
    /\ profileCache = NoKeys
    /\ recCache = NoKeys
    /\ feedbackStore = NoKeys
    /\ recOut = [op |-> "none"]
    /\ rankIn = [recs |-> <<>>, limit |-> 0]
    /\ rankOut = NotRun
    /\ ConcIdle
    /\ SentIdle

GetFaults == {"none", "get_profile", "setex_profile", "setex_recommendations"}

\* get_recommendations(user_id, preferences, limit), lines 32-67, with
\* _get_user_profile (69-125) and _cache_recommendations (401-414).
GetRecommendations(user_id, preferences, limit, fault, order) ==
    LET hit == Holds(profileCache, user_id)
        courses == [i \in DOMAIN order |-> CourseRows[order[i]]]
        call == [op |-> "get_recommendations", user_id |-> user_id,
                 preferences |-> preferences, limit |-> limit]
    IN \E built \in {build_profile(user_id, db)} :
       \E user_profile \in {IF hit THEN json_loads(profileCache[user_id]) ELSE built} :
       \E ranked \in {compute_recommendations(user_profile, courses, db.news,
                                               preferences, limit)} :
       \/ /\ fault = "get_profile"         \* redis get raises, line 72
          /\ recOut' = call @@ [status |-> "raised", result |-> <<>>]
          /\ UNCHANGED <<profileCache, recCache>>
       \/ /\ fault = "setex_profile"       \* redis setex raises, line 124
          /\ ~hit
          /\ recOut' = call @@ [status |-> "raised", result |-> <<>>]
          /\ UNCHANGED <<profileCache, recCache>>
       \/ /\ fault = "setex_recommendations"   \* caught and logged, line 413
          /\ profileCache' = IF hit THEN profileCache
                             ELSE redis_setex(profileCache, user_id, json_dumps(built))
          /\ recOut' = call @@ [status |-> "returned", result |-> ranked]
          /\ UNCHANGED recCache
       \/ /\ fault = "none"
          /\ profileCache' = IF hit THEN profileCache
                             ELSE redis_setex(profileCache, user_id, json_dumps(built))
          /\ recCache' = redis_setex(recCache, user_id, json_dumps(ranked))
          /\ recOut' = call @@ [status |-> "returned", result |-> ranked]

GetRecommendationsCall ==
    \E user_id \in Users, language \in Languages, limit \in 0..MaxRecLimit,
       fault \in GetFaults, order \in Orderings(db.courses) :
        /\ GetRecommendations(user_id, [preferred_language |-> language], limit,
                              fault, order)
        /\ UNCHANGED <<db, feedbackStore, rankVars, ensVars, helperVars, concVars, sentVars>>

FeedbackFaults == {"none", "setex", "delete"}

\* update_user_feedback(user_id, item_id, feedback_type, rating), lines 433-463:
\* one try block around the setex and the delete, the except only logs.
UpdateUserFeedback(user_id, item_id, feedback_type, fault) ==
    LET feedback_data == [user_id |-> user_id, item_id |-> item_id,
                          feedback_type |-> feedback_type]
        call == [op |-> "update_user_feedback", user_id |-> user_id,
                 item_id |-> item_id, fault |-> fault, status |-> "returned"]
    IN /\ recOut' = call
       /\ feedbackStore' =
             IF fault = "setex" THEN feedbackStore
             ELSE redis_setex(feedbackStore, <<user_id, item_id>>,
                              json_dumps(feedback_data))
       /\ recCache' =
             IF fault = "none" THEN redis_delete(recCache, user_id)
             ELSE recCache
       /\ UNCHANGED profileCache

UpdateUserFeedbackCall ==
    \E user_id \in Users, item_id \in FeedbackItems, feedback_type \in FeedbackTypes,
       fault \in FeedbackFaults :
        /\ UpdateUserFeedback(user_id, item_id, feedback_type, fault)
        /\ UNCHANGED <<db, rankVars, ensVars, helperVars, concVars, sentVars>>

\* A key reaches its time to live (3600 s, 1800 s, 86400 s) and redis drops it.
ExpireProfile ==
    \E u \in DOMAIN profileCache :
        /\ profileCache' = redis_delete(profileCache, u)
        /\ UNCHANGED <<db, recCache, feedbackStore, recOut, rankVars, ensVars, helperVars, concVars, sentVars>>

ExpireRecommendations ==
    \E u \in DOMAIN recCache :
        /\ recCache' = redis_delete(recCache, u)
        /\ UNCHANGED <<db, profileCache, feedbackStore, recOut, rankVars, ensVars, helperVars, concVars, sentVars>>

ExpireFeedback ==
    \E k \in DOMAIN feedbackStore :
        /\ feedbackStore' = redis_delete(feedbackStore, k)
        /\ UNCHANGED <<db, profileCache, recCache, recOut, rankVars, ensVars, helperVars, concVars, sentVars>>

NextRec ==
    \/ GetRecommendationsCall
    \/ UpdateUserFeedbackCall
    \/ ExpireProfile
    \/ ExpireRecommendations
    \/ ExpireFeedback

SpecRec == InitRec /\ [][NextRec]_vars

(***************************************************************************)
(* Claims about get_recommendations and update_user_feedback.              *)
(***************************************************************************)
Returned(out, op) == out.op = op /\ out.status = "returned"

\* C4: the ranked set returned by get_recommendations never contains two
\* entries with the same item_id, also when a course and a news article
\* carry the same id.
C4_NoDuplicateItemId ==
    Returned(recOut, "get_recommendations") =>
        \A i, j \in DOMAIN recOut.result :
            i # j => recOut.result[i].item_id # recOut.result[j].item_id

\* C5: after update_user_feedback completes the cache holds no ranked set
\* under that user's key, and a get_recommendations that returns has
\* recomputed its set from the profile and the candidates.
C5_FeedbackInvalidatesRankedSet ==
    /\ recOut.op = "update_user_feedback" => ~Holds(recCache, recOut.user_id)
    /\ Returned(recOut, "get_recommendations") =>
          \E order \in Orderings(db.courses) :
              recOut.result =
                  compute_recommendations(
                      json_loads(profileCache[recOut.user_id]),
                      [i \in DOMAIN order |-> CourseRows[order[i]]],
                      db.news, recOut.preferences, recOut.limit)

(***************************************************************************)
(* SentimentService.  Confidences are exact fractions <<n, d>> with d > 0, *)
(* kept in lowest terms so that equal values are equal tuples.             *)
(***************************************************************************)
RECURSIVE GCD(_, _)
GCD(a, b) == IF b = 0 THEN a ELSE GCD(b, a % b)

Abs(n) == IF n < 0 THEN -n ELSE n

Frac(n, d) ==
    LET g == GCD(Abs(n), d)
    IN IF n = 0 THEN <<0, 1>> ELSE <<n \div g, d \div g>>

Zero == <<0, 1>>
Half == <<1, 2>>

FAdd(a, b) == Frac(a[1] * b[2] + b[1] * a[2], a[2] * b[2])
FMul(a, b) == Frac(a[1] * b[1], a[2] * b[2])
FDiv(a, b) == Frac(a[1] * b[2], a[2] * b[1])          \* b > 0
FLess(a, b) == a[1] * b[2] < b[1] * a[2]
FLeq(a, b) == a[1] * b[2] <= b[1] * a[2]
FMax(a, b) == IF FLess(a, b) THEN b ELSE a

Labels == {"positive", "negative", "neutral"}

\* The key order of the dicts {'positive': 0, 'negative': 0, 'neutral': 0}.
LabelOrder == <<"positive", "negative", "neutral">>

\* max(d, key=d.get): the first key, in the dict's order, that no later key
\* beats; a later key replaces the best one only when strictly greater.
RECURSIVE MaxKeyFrom(_, _, _)
MaxKeyFrom(scores, best, i) ==
    IF i > Len(LabelOrder) THEN best
    ELSE IF FLess(scores[best], scores[LabelOrder[i]])
         THEN MaxKeyFrom(scores, LabelOrder[i], i + 1)
         ELSE MaxKeyFrom(scores, best, i + 1)

\* The same with the keys taken in the order neutral, negative, positive.
max_key_reversed(scores) ==
    IF FLeq(scores["positive"], scores["neutral"])
          /\ FLeq(scores["negative"], scores["neutral"]) THEN "neutral"
    ELSE IF FLeq(scores["positive"], scores["negative"]) THEN "negative"
    ELSE "positive"

max_key(scores) == MaxKeyFrom(scores, LabelOrder[1], 2)

\* The dict an adapter returns: 'error' is TRUE when the dict has that key.
ModelResult(sentiment, confidence) ==
    [sentiment |-> sentiment, confidence |-> confidence, error |-> FALSE]

\* {'sentiment': 'neutral', 'confidence': 0.5, 'error': str(e)}
ErrorResult == [sentiment |-> "neutral", confidence |-> Half, error |-> TRUE]

\* _analyze_with_vader: compound is the polarity score in hundredths.
analyze_with_vader(compound) ==
    LET sentiment == IF compound >= 5 THEN "positive"
                     ELSE IF compound <= -5 THEN "negative"
                     ELSE "neutral"
    IN ModelResult(sentiment, Frac(Abs(compound), 100))

\* _analyze_with_rules on the keyword counts of the tokenized text.
analyze_with_rules(positive_count, negative_count, neutral_count) ==
    LET total_sentiment_words == positive_count + negative_count + neutral_count
    IN IF total_sentiment_words = 0 THEN ModelResult("neutral", Half)
       ELSE LET pos_score == Frac(positive_count, total_sentiment_words)
                neg_score == Frac(negative_count, total_sentiment_words)
                neu_score == Frac(neutral_count, total_sentiment_words)
            IN IF FLess(neg_score, pos_score) /\ FLess(neu_score, pos_score)
               THEN ModelResult("positive", pos_score)
               ELSE IF FLess(pos_score, neg_score) /\ FLess(neu_score, neg_score)
               THEN ModelResult("negative", neg_score)
               ELSE ModelResult("neutral", FMax(neu_score, Half))

(***************************************************************************)
(* _split_text on the sentences sent_tokenize returns, each given by its   *)
(* length; a chunk is the sequence of the sentences joined into it.        *)
(***************************************************************************)
max_length == 512

RECURSIVE SumSeq(_)
SumSeq(s) == IF s = <<>> THEN 0 ELSE Head(s) + SumSeq(Tail(s))

\* len(current_chunk): the sentences and one space between neighbours.
ChunkLen(chunk) == IF chunk = <<>> THEN 0 ELSE SumSeq(chunk) + Len(chunk) - 1

\* The loop without lines 370-371: the chunk being filled is never added.
RECURSIVE split_loop_drops_last(_, _, _)
split_loop_drops_last(sentences, chunks, current_chunk) ==
    IF sentences = <<>> THEN chunks
    ELSE LET sentence == Head(sentences)
         IN IF ChunkLen(current_chunk) + sentence <= max_length
            THEN split_loop_drops_last(Tail(sentences), chunks,
                                       Append(current_chunk, sentence))
            ELSE split_loop_drops_last(Tail(sentences),
                                       IF current_chunk # <<>>
                                       THEN Append(chunks, current_chunk) ELSE chunks,
                                       <<sentence>>)

RECURSIVE split_loop(_, _, _)
split_loop(sentences, chunks, current_chunk) ==
    IF sentences = <<>>
    THEN IF current_chunk # <<>> THEN Append(chunks, current_chunk) ELSE chunks
    ELSE LET sentence == Head(sentences)
         IN IF ChunkLen(current_chunk) + sentence <= max_length
            THEN split_loop(Tail(sentences), chunks, Append(current_chunk, sentence))
            ELSE split_loop(Tail(sentences),
                            IF current_chunk # <<>> THEN Append(chunks, current_chunk)
                                                    ELSE chunks,
                            <<sentence>>)

\* A split that neither adds the chunk being filled nor falls back.
split_text_drops_last(sentences) == split_loop_drops_last(sentences, <<>>, <<>>)

\* `chunks if chunks else [text[:max_length]]`: a text without a sentence
\* gives one chunk holding no sentence.
split_text(sentences) ==
    LET chunks == split_loop(sentences, <<>>, <<>>)
    IN IF chunks # <<>> THEN chunks ELSE << <<>> >>

(***************************************************************************)
(* The classifier adapters.  A pipeline call on one chunk either raises or *)
(* returns [label, score] in the classifier's own vocabulary.              *)
(***************************************************************************)
\* str.lower() on the labels drawn.
Lower(label) ==
    CASE label = "Positive" -> "positive"
      [] label = "Negative" -> "negative"
      [] label = "Neutral" -> "neutral"
      [] label = "MIXED" -> "mixed"
      [] label = "LABEL_0" -> "label_0"
      [] label = "LABEL_1" -> "label_1"
      [] label = "LABEL_2" -> "label_2"
      [] OTHER -> label

\* label_mapping.get(label, label.lower()), lines 203-212.
general_label(label) ==
    CASE label \in {"LABEL_0", "NEGATIVE"} -> "negative"
      [] label \in {"LABEL_1", "NEUTRAL"} -> "neutral"
      [] label \in {"LABEL_2", "POSITIVE"} -> "positive"
      [] OTHER -> Lower(label)

finbert_label(label) == Lower(label)

Raises(outcome) == outcome.raises

\* sentiment_counts[sentiment] += confidence raises KeyError on such a label.
RECURSIVE SumFor(_, _)
SumFor(chunk_results, label) ==
    IF chunk_results = <<>> THEN Zero
    ELSE FAdd(IF Head(chunk_results).label = label THEN Head(chunk_results).score
              ELSE Zero,
              SumFor(Tail(chunk_results), label))

aggregate_raises(chunk_results) ==
    \E i \in DOMAIN chunk_results : chunk_results[i].label \notin Labels

\* An aggregate that reports the dominant label's summed score undivided.
aggregate_chunk_results_summed(chunk_results) ==
    IF chunk_results = <<>> THEN [label |-> "neutral", score |-> Half]
    ELSE LET sentiment_counts == [l \in Labels |-> SumFor(chunk_results, l)]
             dominant_sentiment == max_key(sentiment_counts)
         IN [label |-> dominant_sentiment,
             score |-> sentiment_counts[dominant_sentiment]]

\* _aggregate_chunk_results, for chunk results it does not raise on.
aggregate_chunk_results(chunk_results) ==
    IF chunk_results = <<>> THEN [label |-> "neutral", score |-> Half]
    ELSE LET sentiment_counts == [l \in Labels |-> SumFor(chunk_results, l)]
             dominant_sentiment == max_key(sentiment_counts)
         IN [label |-> dominant_sentiment,
             score |-> FDiv(sentiment_counts[dominant_sentiment],
                            <<Len(chunk_results), 1>>)]

\* The body shared by _analyze_with_finbert and _analyze_with_general_model:
\* `outcomes` are the pipeline's answers for the chunks, `labels` the labels
\* the adapter makes of them.  Everything sits in one try block.
classifier_result(outcomes, labels) ==
    IF \E i \in DOMAIN outcomes : Raises(outcomes[i]) THEN ErrorResult
    ELSE LET chunk_results ==
                 [i \in DOMAIN outcomes |->
                     [label |-> labels[i], score |-> outcomes[i].score]]
         IN IF Len(chunk_results) = 1
            THEN ModelResult(chunk_results[1].label, chunk_results[1].score)
            ELSE IF aggregate_raises(chunk_results) THEN ErrorResult
            ELSE LET final_result == aggregate_chunk_results(chunk_results)
                 IN ModelResult(final_result.label, final_result.score)

\* A try block that covers the first pipeline call only.
analyze_with_finbert_first_call_guarded(outcomes) ==
    IF Raises(outcomes[1]) THEN ErrorResult
    ELSE ModelResult(finbert_label(outcomes[1].label), outcomes[1].score)

analyze_with_finbert(outcomes) ==
    classifier_result(outcomes,
        [i \in DOMAIN outcomes |-> finbert_label(outcomes[i].label)])

analyze_with_general_model(outcomes) ==
    classifier_result(outcomes,
        [i \in DOMAIN outcomes |-> general_label(outcomes[i].label)])

(***************************************************************************)
(* _create_ensemble_result.  `results` is the dict built by                *)
(* analyze_sentiment: a function from the keys present to adapter results. *)
(***************************************************************************)
ModelOrder == <<"vader", "finbert", "general", "rule_based">>
Models == {ModelOrder[i] : i \in DOMAIN ModelOrder}

weights ==
    [finbert |-> Frac(40, 100), vader |-> Frac(25, 100),
     general |-> Frac(20, 100), rule_based |-> Frac(15, 100)]

ZeroScores == [l \in Labels |-> Zero]

\* sentiment_scores[sentiment] += ... raises KeyError on any other label.
ensemble_raises(results) ==
    \E model \in Models \cap DOMAIN results : results[model].sentiment \notin Labels

\* The loop of lines 305-312, from the i-th model on.
RECURSIVE ensemble_loop(_, _, _, _)
ensemble_loop(results, i, sentiment_scores, total_weight) ==
    IF i > Len(ModelOrder)
    THEN [scores |-> sentiment_scores, total_weight |-> total_weight]
    ELSE LET model == ModelOrder[i]
         IN IF model \in DOMAIN results
            THEN LET weight == weights[model]
                     sentiment == results[model].sentiment
                     confidence == results[model].confidence
                 IN ensemble_loop(results, i + 1,
                        [sentiment_scores EXCEPT
                            ![sentiment] = FAdd(@, FMul(weight, confidence))],
                        FAdd(total_weight, weight))
            ELSE ensemble_loop(results, i + 1, sentiment_scores, total_weight)

BareKeys == {"sentiment", "confidence"}
FullKeys == {"sentiment", "confidence", "scores", "models_used", "total_weight"}

\* `keys` are the keys of the returned dict; scores and total_weight are
\* meaningful only when they are among them.
create_ensemble_result(results) ==
    IF Models \cap DOMAIN results = {}
    THEN [sentiment |-> "neutral", confidence |-> Half, keys |-> BareKeys,
          scores |-> ZeroScores, total_weight |-> Zero]
    ELSE LET acc == ensemble_loop(results, 1, ZeroScores, Zero)
             sentiment_scores ==
                 IF FLess(Zero, acc.total_weight)
                 THEN [l \in Labels |-> FDiv(acc.scores[l], acc.total_weight)]
                 ELSE acc.scores
             final_sentiment == max_key(sentiment_scores)
         IN [sentiment |-> final_sentiment,
             confidence |-> sentiment_scores[final_sentiment],
             keys |-> FullKeys,
             scores |-> sentiment_scores,
             total_weight |-> acc.total_weight]

(***************************************************************************)
(* The ensemble on its own: the backends' answers for the chunks of a text *)
(* are drawn, the four adapters turn them into verdicts and the ensemble   *)
(* combines the verdicts, as lines 109-123 do for model_type 'ensemble'.   *)
(***************************************************************************)
Outcome(label, score) == [raises |-> FALSE, label |-> label, score |-> score]

\* The pipeline raised; label and score are not looked at.
Raised == [raises |-> TRUE, label |-> "Neutral", score |-> Zero]

MaxChunks == 2          \* the most chunks a drawn text splits into

Compounds == {-80, 0, 80, 100}

FinbertOutcomes ==
    {Raised, Outcome("Positive", Frac(1, 1)), Outcome("Negative", Half),
     Outcome("Neutral", Frac(9, 10))}

GeneralOutcomes ==
    {Raised, Outcome("LABEL_2", Frac(1, 1)), Outcome("LABEL_0", Frac(4, 5)),
     Outcome("LABEL_1", Half), Outcome("MIXED", Frac(4, 5))}

KeywordCounts ==
    {[positive |-> 0, negative |-> 0, neutral |-> 0],
     [positive |-> 2, negative |-> 0, neutral |-> 0],
     [positive |-> 1, negative |-> 2, neutral |-> 0],
     [positive |-> 1, negative |-> 1, neutral |-> 0]}

InitEns ==
    /\ \E n \in 1..MaxChunks :
          ensIn \in [compound : Compounds, finbert : [1..n -> FinbertOutcomes],
                     general : [1..n -> GeneralOutcomes], counts : KeywordCounts]
    /\ ensOut = [status |-> NotRun]
    /\ HelperIdle
    /\ world = NotRun
    /\ now = 0
    /\ batch = [pc |-> "idle"]
    /\ sentCache = NoKeys
    /\ sentOut = [op |-> "none"]
    /\ RecIdle
    /\ rankIn = [recs |-> <<>>, limit |-> 0]
    /\ rankOut = NotRun
    /\ ConcIdle

adapter_results(in) ==
    [model \in Models |->
        CASE model = "vader" -> analyze_with_vader(in.compound)
          [] model = "finbert" -> analyze_with_finbert(in.finbert)
          [] model = "general" -> analyze_with_general_model(in.general)
          [] model = "rule_based" ->
                analyze_with_rules(in.counts.positive, in.counts.negative,
                                   in.counts.neutral)]

EnsembleCall ==
    /\ ensOut = [status |-> NotRun]
    /\ HelperIdle
    /\ \E results \in {adapter_results(ensIn)} :
          ensOut' = IF ensemble_raises(results)
                    THEN [status |-> "raised", results |-> results,
                          ensemble |-> <<>>]
                    ELSE [status |-> "returned", results |-> results,
                          ensemble |-> <<create_ensemble_result(results)>>]
    /\ UNCHANGED <<ensIn, sentVars, recVars, rankVars, helperVars, concVars>>

NextEns == EnsembleCall

SpecEns == InitEns /\ [][NextEns]_vars

(***************************************************************************)
(* Claims about the ensemble.                                              *)
(***************************************************************************)
RefWeight(model) ==
    CASE model = "finbert" -> <<2, 5>>
      [] model = "vader" -> <<1, 4>>
      [] model = "general" -> <<1, 5>>
      [] model = "rule_based" -> <<3, 20>>

RECURSIVE RefWeightSum(_)
RefWeightSum(S) ==
    IF S = {} THEN Zero
    ELSE LET m == CHOOSE x \in S : TRUE
         IN FAdd(RefWeight(m), RefWeightSum(S \ {m}))

\* Sum of weight * confidence over the adapters of S that report `label`.
RECURSIVE RefScore(_, _, _)
RefScore(results, S, label) ==
    IF S = {} THEN Zero
    ELSE LET m == CHOOSE x \in S : TRUE
         IN FAdd(IF results[m].sentiment = label
                 THEN FMul(RefWeight(m), results[m].confidence) ELSE Zero,
                 RefScore(results, S \ {m}, label))

RefRankOf(label) == CHOOSE i \in DOMAIN LabelOrder : LabelOrder[i] = label

\* The label with the largest score; of equal scores the one that comes
\* first in positive, negative, neutral.
RefArgmax(score) ==
    CHOOSE l \in Labels :
        \A o \in Labels \ {l} :
            \/ FLess(score[o], score[l])
            \/ score[o] = score[l] /\ RefRankOf(l) < RefRankOf(o)

Succeeded(results) == {m \in Models : ~results[m].error}

\* C6: the ensemble combines only the adapters that ran without error: an
\* adapter that reported the {neutral, 0.5, error} fallback adds nothing to
\* any label's score, and the divisor is the sum of the weights of the
\* adapters that succeeded.
C6_ErroredAdaptersExcluded ==
    ensOut.status = "returned" =>
        LET e == ensOut.ensemble[1]
            ok == Succeeded(ensOut.results)
        IN /\ e.total_weight = RefWeightSum(ok)
           /\ \A l \in Labels :
                 e.scores[l] = FDiv(RefScore(ensOut.results, ok, l), RefWeightSum(ok))

\* C8: score[label] is the sum of weight * confidence over the adapters
\* reporting that label (finbert 0.40, vader 0.25, general 0.20, rule_based
\* 0.15); the ensemble returns the label with the largest score, positive
\* before negative before neutral among equal scores, and the confidence
\* score[label] / sum of the weights used.
C8_EnsembleIsWeightedArgmax ==
    ensOut.status = "returned" =>
        LET e == ensOut.ensemble[1]
            score == [l \in Labels |-> RefScore(ensOut.results, Models, l)]
            label == RefArgmax(score)
        IN /\ e.sentiment = label
           /\ e.confidence = FDiv(score[label], RefWeightSum(Models))

\* Positive and negative carry the same largest score, and positive is returned.
C8_Witness ==
    /\ ensOut.status = "returned"
    /\ RefScore(ensOut.results, Models, "positive")
          = RefScore(ensOut.results, Models, "negative")
    /\ FLess(RefScore(ensOut.results, Models, "neutral"),
             RefScore(ensOut.results, Models, "positive"))
    /\ ensOut.ensemble[1].sentiment = "positive"
    /\ ensOut.ensemble[1].confidence = Frac(1, 5)

(***************************************************************************)
(* analyze_sentiment with its redis cache.  A text is known by the number  *)
(* of sentences it has; `world` fixes how the four backends behave.  The   *)
(* clock stands still in SpecSent; SpecTtl below lets it run.              *)
(***************************************************************************)
MaxSentences == 2       \* the longest text analysed, in sentences
SentenceLen == 300      \* the length of every sentence

Texts == 1..MaxSentences
ModelTypes == {"ensemble", "general"}
sent_tokenize(text) == [i \in 1..text |-> SentenceLen]
NumChunks(text) == Len(split_text(sent_tokenize(text)))

Healthy == [vader |-> "ok", finbert |-> "ok", general |-> "ok", rules |-> "ok"]

\* "raise_last": the pipeline raises on the last chunk of a text;
\* "mixed": the classifier answers with a label outside its mapping table.
Worlds ==
    {Healthy,
     [Healthy EXCEPT !.finbert = "raise_last"],
     [Healthy EXCEPT !.general = "raise_last"],
     [Healthy EXCEPT !.finbert = "raise_last", !.general = "raise_last"],
     [Healthy EXCEPT !.general = "mixed"],
     [Healthy EXCEPT !.finbert = "raise_last", !.general = "mixed"],
     [Healthy EXCEPT !.vader = "raise"],
     [vader |-> "raise", finbert |-> "raise_last", general |-> "raise_last",
      rules |-> "raise"]}

\* What self.finbert_pipeline / self.general_pipeline do on the chunks.
healthy_outcome(model) ==
    IF model = "finbert" THEN Outcome("Positive", Frac(9, 10))
    ELSE Outcome("LABEL_2", Frac(4, 5))

pipeline_outcomes(w, model, text) ==
    [i \in 1..NumChunks(text) |->
        CASE w[model] = "raise_last" /\ i = NumChunks(text) -> Raised
          [] w[model] = "mixed" -> Outcome("MIXED", Frac(4, 5))
          [] OTHER -> healthy_outcome(model)]

ClassifierRaised(w, model, text) ==
    /\ model \in {"finbert", "general"}
    /\ \E i \in 1..NumChunks(text) :
          Raises(pipeline_outcomes(w, model, text)[i])

\* The adapters lines 109-119 run for a model_type.
selected(model_type) ==
    {m \in Models : \/ m = "rule_based"
                    \/ model_type = "ensemble"
                    \/ model_type = m}

\* vader and rule_based have no try block: a raise there leaves the call.
adapter_raises(w, model) ==
    \/ model = "vader" /\ w.vader = "raise"
    \/ model = "rule_based" /\ w.rules = "raise"

adapter_result(w, model, text) ==
    CASE model = "vader" -> analyze_with_vader(80)
      [] model = "finbert" ->
            analyze_with_finbert(pipeline_outcomes(w, model, text))
      [] model = "general" ->
            analyze_with_general_model(pipeline_outcomes(w, model, text))
      [] model = "rule_based" -> analyze_with_rules(2, 0, 0)

\* Lines 107-119: the adapters run in order until one raises.
RECURSIVE run_adapters(_, _, _, _, _)
run_adapters(w, text, model_type, i, results) ==
    IF i > Len(ModelOrder) THEN [raised |-> FALSE, models |-> results]
    ELSE LET model == ModelOrder[i]
         IN IF model \notin selected(model_type)
            THEN run_adapters(w, text, model_type, i + 1, results)
            ELSE IF adapter_raises(w, model)
            THEN [raised |-> TRUE, models |-> results]
            ELSE run_adapters(w, text, model_type, i + 1,
                    [m \in DOMAIN results \cup {model} |->
                        IF m = model THEN adapter_result(w, model, text)
                        ELSE results[m]])

NoModels == [m \in {} |-> ErrorResult]

\* The `results` dict: the adapters' entries, the 'ensemble' entry if any,
\* whether it has an 'entities' entry, and its 'metadata'.
Results(models, ensemble, entities, text, model_type) ==
    [models |-> models, ensemble |-> ensemble, entities |-> entities,
     metadata |-> [text_length |-> ChunkLen(sent_tokenize(text)),
                   timestamp |-> now,
                   model_type |-> model_type]]

\* str(results) and eval(cached_result.decode()).
str_of(value) == [repr |-> value]
\* An eval that stamps what it parsed with the current time.
eval_of_restamped(blob) == [blob.repr EXCEPT !.metadata.timestamp = now]

eval_of(blob) == blob.repr

SentFaults == {"none", "cache_get", "entities", "cache_setex"}

\* The call's end: how it left, the dict as it then stood, and whether the
\* dict was written to the cache.
analyze_sentiment(w, cache, text, include_entities, model_type, fault) ==
    LET cache_key == <<text, model_type>>
        run == run_adapters(w, text, model_type, 1, NoModels)
        partial(models, ensemble, entities) ==
            [status |-> "raised", cached |-> FALSE, store |-> FALSE,
             results |-> Results(models, ensemble, entities, text, model_type)]
    IN IF fault = "cache_get" THEN partial(NoModels, <<>>, FALSE)
       ELSE IF Holds(cache, cache_key)
       THEN [status |-> "returned", cached |-> TRUE, store |-> FALSE,
             results |-> eval_of(cache[cache_key])]
       ELSE IF run.raised THEN partial(run.models, <<>>, FALSE)
       ELSE IF model_type = "ensemble" /\ ensemble_raises(run.models)
       THEN partial(run.models, <<>>, FALSE)
       ELSE LET ensemble == IF model_type = "ensemble"
                            THEN <<create_ensemble_result(run.models)>>
                            ELSE <<>>
            IN IF include_entities /\ fault = "entities"
               THEN partial(run.models, ensemble, FALSE)
               ELSE IF fault = "cache_setex"
               THEN partial(run.models, ensemble, include_entities)
               ELSE [status |-> "returned", cached |-> FALSE, store |-> TRUE,
                     results |-> Results(run.models, ensemble, include_entities,
                                         text, model_type)]

InitSent ==
    /\ world \in Worlds
    /\ now = 0
    /\ batch = [pc |-> "idle"]
    /\ sentCache = NoKeys
    /\ sentOut = [op |-> "none"]
    /\ ensIn = NotRun
    /\ ensOut = [status |-> NotRun]
    /\ HelperIdle
    /\ RecIdle
    /\ rankIn = [recs |-> <<>>, limit |-> 0]
    /\ rankOut = NotRun
    /\ ConcIdle

AnalyzeSentiment(text, include_entities, model_type, fault) ==
    \E end \in {analyze_sentiment(world, sentCache, text, include_entities,
                                  model_type, fault)} :
        /\ sentOut' = [op |-> "analyze_sentiment", text |-> text,
                       include_entities |-> include_entities,
                       model_type |-> model_type, fault |-> fault,
                       status |-> end.status, cached |-> end.cached,
                       results |-> end.results]
        /\ sentCache' = IF end.store
                        THEN redis_setex(sentCache, <<text, model_type>>,
                                         str_of(end.results))
                        ELSE sentCache

AnalyzeSentimentCall ==
    \E text \in Texts, include_entities \in BOOLEAN,
       model_type \in ModelTypes, fault \in SentFaults :
        /\ fault = "entities" => include_entities
        /\ AnalyzeSentiment(text, include_entities, model_type, fault)
        /\ UNCHANGED <<world, now, batch, ensVars, helperVars, concVars, recVars, rankVars>>

\* The hour of line 138 has passed for one key.
ExpireSentiment ==
    \E k \in DOMAIN sentCache :
        /\ sentCache' = redis_delete(sentCache, k)
        /\ UNCHANGED <<world, sentOut, now, batch, ensVars, helperVars, concVars, recVars, rankVars>>

NextSent ==
    \/ AnalyzeSentimentCall
    \/ ExpireSentiment

SpecSent == InitSent /\ [][NextSent]_vars

(***************************************************************************)
(* Claims about analyze_sentiment.                                         *)
(***************************************************************************)
\* The last call was analyze_sentiment and it went past the cache lookup.
Analyzed == sentOut.op = "analyze_sentiment" /\ ~sentOut.cached
              /\ sentOut.fault # "cache_get"

\* Every adapter the call ran raised.
EveryAdapterFailed ==
    /\ Analyzed
    /\ \A m \in selected(sentOut.model_type) :
          adapter_raises(world, m) \/ ClassifierRaised(world, m, sentOut.text)

\* C7: if every adapter fails during an analyze_sentiment call, the call
\* returns the ensemble result {neutral, 0.5} carrying a flag, beyond the
\* keys of an ordinary ensemble result, that no model succeeded.
C7_AllFailedIsFlaggedNeutral ==
    (EveryAdapterFailed /\ sentOut.model_type = "ensemble"
        /\ sentOut.fault = "none") =>
        /\ sentOut.status = "returned"
        /\ Len(sentOut.results.ensemble) = 1
        /\ sentOut.results.ensemble[1].sentiment = "neutral"
        /\ sentOut.results.ensemble[1].confidence = Half
        /\ sentOut.results.ensemble[1].keys \ FullKeys # {}

\* Nothing but a classifier went wrong in the last call: the cache and the
\* entity extractor answered, vader and the keyword rules did not raise and
\* no adapter handed the ensemble a label it has no score for.
OnlyClassifiersFailed ==
    /\ sentOut.fault = "none"
    /\ \A m \in selected(sentOut.model_type) : ~adapter_raises(world, m)
    /\ ~(sentOut.model_type = "ensemble" /\ ensemble_raises(sentOut.results.models))

\* C9: when the finbert or general pipeline raises on a chunk, the adapter
\* returns {neutral, 0.5, error} instead of propagating, and the enclosing
\* analyze_sentiment call returns a verdict unless something else failed.
C9_ClassifierFailureIsContained ==
    Analyzed =>
        \A m \in DOMAIN sentOut.results.models :
            ClassifierRaised(world, m, sentOut.text) =>
                /\ sentOut.results.models[m] = ErrorResult
                /\ OnlyClassifiersFailed =>
                      /\ sentOut.status = "returned"
                      /\ sentOut.model_type = "ensemble" =>
                            /\ Len(sentOut.results.ensemble) = 1
                            /\ sentOut.results.ensemble[1].sentiment \in Labels

\* finbert raised on the second chunk of a text after answering on the
\* first; the call returned an ensemble verdict built on the fallback.
C9_Witness ==
    /\ Analyzed
    /\ sentOut.model_type = "ensemble"
    /\ NumChunks(sentOut.text) = 2
    /\ world.finbert = "raise_last"
    /\ world.general = "ok"
    /\ sentOut.status = "returned"
    /\ sentOut.results.models["finbert"] = ErrorResult
    /\ sentOut.results.ensemble[1].sentiment = "positive"

\* C10: every label an adapter or the ensemble returns is positive,
\* negative or neutral, whatever label the classifier emitted, and
\* analyze_sentiment does not fail because of such a label.
C10_LabelsAreCanonical ==
    sentOut.op = "analyze_sentiment" =>
        /\ \A m \in DOMAIN sentOut.results.models :
              sentOut.results.models[m].sentiment \in Labels
        /\ \A i \in DOMAIN sentOut.results.ensemble :
              sentOut.results.ensemble[i].sentiment \in Labels
        /\ ~(/\ Analyzed
             /\ sentOut.status = "raised"
             /\ sentOut.model_type = "ensemble"
             /\ ensemble_raises(sentOut.results.models))

(***************************************************************************)
(* Claims about confidences.                                               *)
(***************************************************************************)
InUnitInterval(f) == FLeq(Zero, f) /\ FLeq(f, <<1, 1>>)

\* C11: with every backend's output in range (compound in [-1, 1], scores
\* in [0, 1]), every confidence produced lies in [0, 1]: each adapter's,
\* each multi-chunk aggregate's and the ensemble's, for any number of
\* chunks and any combination of labels.
C11_ConfidencesInUnitInterval ==
    ensOut.status # NotRun =>
        /\ \A m \in Models : InUnitInterval(ensOut.results[m].confidence)
        /\ \A i \in DOMAIN ensOut.ensemble :
              /\ InUnitInterval(ensOut.ensemble[i].confidence)
              /\ \A l \in Labels : InUnitInterval(ensOut.ensemble[i].scores[l])

\* Two chunks were aggregated into a confidence of exactly 1 and the
\* ensemble of four unanimous verdicts reaches 1 as well.
C11_Witness ==
    /\ ensOut.status = "returned"
    /\ Len(ensIn.finbert) = 2
    /\ ~ensOut.results["finbert"].error
    /\ ensOut.results["finbert"].confidence = <<1, 1>>
    /\ ensOut.results["vader"].confidence = <<1, 1>>
    /\ ensOut.ensemble[1].sentiment = "positive"
    /\ ensOut.ensemble[1].confidence = <<1, 1>>

(***************************************************************************)
(* analyze_sentiment over time: the clock advances between calls, so a     *)
(* result computed again differs from the one computed before.  The cache  *)
(* and the backends answer (their faults are explored in SpecSent).        *)
(***************************************************************************)
MaxClock == 1           \* the last time step explored

InitTtl ==
    /\ world \in {Healthy, [Healthy EXCEPT !.finbert = "raise_last"]}
    /\ now = 0
    /\ batch = [pc |-> "idle"]
    /\ sentCache = NoKeys
    /\ sentOut = [op |-> "none"]
    /\ ensIn = NotRun
    /\ ensOut = [status |-> NotRun]
    /\ HelperIdle
    /\ RecIdle
    /\ rankIn = [recs |-> <<>>, limit |-> 0]
    /\ rankOut = NotRun
    /\ ConcIdle

AnalyzeSentimentInTime ==
    \E text \in Texts, include_entities \in BOOLEAN, model_type \in ModelTypes :
        /\ AnalyzeSentiment(text, include_entities, model_type, "none")
        /\ UNCHANGED <<world, now, batch, ensVars, helperVars, concVars, recVars, rankVars>>

Tick ==
    /\ now < MaxClock
    /\ now' = now + 1
    /\ UNCHANGED <<world, sentCache, sentOut, batch, ensVars, helperVars, concVars, recVars, rankVars>>

NextTtl ==
    \/ AnalyzeSentimentInTime
    \/ ExpireSentiment
    \/ Tick

SpecTtl == InitTtl /\ [][NextTtl]_vars

\* What a call for (text, model_type) does, told from the cache before it.
CacheRoundTrip(text, model_type) ==
    LET key == <<text, model_type>>
    IN IF key \in DOMAIN sentCache
       THEN /\ sentOut'.cached
            /\ sentOut'.status = "returned"
            /\ [repr |-> sentOut'.results] = sentCache[key]
            /\ sentCache' = sentCache
       ELSE /\ ~sentOut'.cached
            /\ sentOut'.results.metadata.timestamp = now
            /\ DOMAIN sentOut'.results.models = selected(model_type)
            /\ key \in DOMAIN sentCache'
            /\ sentCache'[key] = [repr |-> sentOut'.results]

MaxBatch == 2           \* the longest batch of texts

BatchTexts == UNION {[1..n -> Texts] : n \in 0..MaxBatch}

NoResults == [none |-> TRUE]
NewTask == [pc |-> "start", status |-> "pending", results |-> NoResults]

\* A gather that hands the results back in the order the tasks completed.
gather_as_completed(tasks, completion) ==
    [i \in DOMAIN completion |-> tasks[completion[i]]]

\* asyncio.gather(*tasks, return_exceptions=True): the i-th result is the
\* i-th task's, whatever the order of completion.
gather(tasks, completion) == [i \in DOMAIN tasks |-> tasks[i]]

\* Lines 417-427.
processed_results(results) ==
    [i \in DOMAIN results |->
        IF results[i].status = "raised" THEN ErrorResult ELSE results[i].results]

InitBatch ==
    /\ world \in {Healthy, [Healthy EXCEPT !.general = "mixed"]}
    /\ now = 0
    /\ batch = [pc |-> "idle"]
    /\ sentCache = NoKeys
    /\ sentOut = [op |-> "none"]
    /\ ensIn = NotRun
    /\ ensOut = [status |-> NotRun]
    /\ HelperIdle
    /\ RecIdle
    /\ rankIn = [recs |-> <<>>, limit |-> 0]
    /\ rankOut = NotRun
    /\ ConcIdle

BatchStart ==
    /\ batch.pc \in {"idle", "returned"}
    /\ \E texts \in BatchTexts, model_type \in ModelTypes :
          batch' = [pc |-> "running", texts |-> texts, model_type |-> model_type,
                    tasks |-> [i \in DOMAIN texts |-> NewTask],
                    completion |-> <<>>]
    /\ UNCHANGED <<world, sentCache, sentOut, now, ensVars, helperVars, concVars, recVars, rankVars>>

TaskDone(i, end) ==
    [batch EXCEPT !.tasks[i] = [pc |-> "done", status |-> end.status,
                                results |-> end.results],
                  !.completion = Append(@, i)]

\* The i-th coroutine is resumed with the answer of redis.get (lines 99-104).
TaskGet(i) ==
    /\ batch.pc = "running"
    /\ batch.tasks[i].pc = "start"
    /\ \E fault \in {"none", "cache_get"} :
          \E end \in {analyze_sentiment(world, sentCache, batch.texts[i], FALSE,
                                        batch.model_type, fault)} :
              batch' = IF fault = "cache_get" \/ end.cached
                       THEN TaskDone(i, end)
                       ELSE [batch EXCEPT !.tasks[i].pc = "computing"]
    /\ UNCHANGED <<world, sentCache, sentOut, now, ensVars, helperVars, concVars, recVars, rankVars>>

\* After a miss the i-th coroutine runs lines 106-138 and ends.
TaskStore(i) ==
    /\ batch.pc = "running"
    /\ batch.tasks[i].pc = "computing"
    /\ \E fault \in {"none", "cache_setex"} :
          \E end \in {analyze_sentiment(world, NoKeys, batch.texts[i], FALSE,
                                        batch.model_type, fault)} :
              /\ batch' = TaskDone(i, end)
              /\ sentCache' = IF end.store
                              THEN redis_setex(sentCache,
                                       <<batch.texts[i], batch.model_type>>,
                                       str_of(end.results))
                              ELSE sentCache
    /\ UNCHANGED <<world, sentOut, now, ensVars, helperVars, concVars, recVars, rankVars>>

BatchReturn ==
    /\ batch.pc = "running"
    /\ \A i \in DOMAIN batch.tasks : batch.tasks[i].pc = "done"
    /\ batch' = [pc |-> "returned", texts |-> batch.texts,
                 model_type |-> batch.model_type, tasks |-> batch.tasks,
                 completion |-> batch.completion,
                 out |-> processed_results(gather(batch.tasks, batch.completion))]
    /\ UNCHANGED <<world, sentCache, sentOut, now, ensVars, helperVars, concVars, recVars, rankVars>>

ExpireDuringBatch ==
    \E k \in DOMAIN sentCache :
        /\ sentCache' = redis_delete(sentCache, k)
        /\ UNCHANGED <<world, sentOut, now, batch, ensVars, helperVars, concVars, recVars, rankVars>>

NextBatch ==
    \/ BatchStart
    \/ \E i \in 1..MaxBatch :
          batch.pc = "running" /\ i \in DOMAIN batch.tasks /\ TaskGet(i)
    \/ \E i \in 1..MaxBatch :
          batch.pc = "running" /\ i \in DOMAIN batch.tasks /\ TaskStore(i)
    \/ BatchReturn
    \/ ExpireDuringBatch

SpecBatch == InitBatch /\ [][NextBatch]_vars

\* C13: analyze_batch returns a list as long as its input whose i-th element
\* is the outcome for the i-th text under every completion order; a text
\* whose analysis raised has {neutral, 0.5, error} at its own position, the
\* other positions hold their texts' results, and the batch does not raise.
C13_BatchIsPositional ==
    /\ batch.pc \in {"idle", "running", "returned"}
    /\ batch.pc = "returned" =>
          /\ Len(batch.out) = Len(batch.texts)
          /\ \A i \in DOMAIN batch.texts :
                IF batch.tasks[i].status = "raised"
                THEN batch.out[i] = ErrorResult
                ELSE /\ batch.out[i] = batch.tasks[i].results
                     /\ batch.out[i].metadata.text_length
                           = ChunkLen(sent_tokenize(batch.texts[i]))
                     /\ batch.out[i].metadata.model_type = batch.model_type
                     /\ DOMAIN batch.out[i].models = selected(batch.model_type)

\* The second text's call completed first and returned, the first text's
\* call raised afterwards.
C13_Witness ==
    /\ batch.pc = "returned"
    /\ Len(batch.texts) = 2
    /\ batch.texts[1] # batch.texts[2]
    /\ batch.completion = <<2, 1>>
    /\ batch.tasks[1].status = "raised"
    /\ batch.out[1] = ErrorResult
    /\ batch.tasks[2].status = "returned"
    /\ batch.out[2].metadata.text_length = ChunkLen(sent_tokenize(batch.texts[2]))

(***************************************************************************)
(* Claims about an unavailable cache.                                      *)
(***************************************************************************)
\* C14: when a cache get or set raises, analyze_sentiment and
\* get_recommendations treat it as a miss: they compute and return the
\* result without caching and do not fail the request.  (The only raises of
\* a get_recommendations call are those of the profile's get and setex.)
C14_CacheFaultIsAMiss ==
    /\ (sentOut.op = "analyze_sentiment"
          /\ sentOut.fault \in {"cache_get", "cache_setex"}
          /\ \A m \in selected(sentOut.model_type) : ~adapter_raises(world, m)
          /\ ~(sentOut.model_type = "ensemble"
                  /\ ensemble_raises(sentOut.results.models))) =>
          /\ sentOut.status = "returned"
          /\ DOMAIN sentOut.results.models = selected(sentOut.model_type)
    /\ recOut.op = "get_recommendations" => recOut.status = "returned"

(***************************************************************************)
(* _get_user_profile on its own, while the users' histories change.        *)
(***************************************************************************)
NoProfile == [none |-> TRUE]

ProfileFaults == {"none", "get", "setex"}

GetUserProfile(user_id, fault) ==
    LET hit == Holds(profileCache, user_id)
        call == [op |-> "_get_user_profile", user_id |-> user_id, cached |-> hit]
    IN \E built \in {build_profile(user_id, db)} :
       \/ /\ fault = "get"                  \* redis get raises, line 72
          /\ recOut' = call @@ [status |-> "raised", result |-> NoProfile]
          /\ UNCHANGED profileCache
       \/ /\ fault = "none"
          /\ hit                            \* lines 74-75
          /\ recOut' = call @@ [status |-> "returned",
                                result |-> json_loads(profileCache[user_id])]
          /\ UNCHANGED profileCache
       \/ /\ fault = "setex"                \* redis setex raises, line 124
          /\ ~hit
          /\ recOut' = call @@ [status |-> "raised", result |-> NoProfile]
          /\ UNCHANGED profileCache
       \/ /\ fault = "none"
          /\ ~hit                           \* lines 76-125
          /\ profileCache' = redis_setex(profileCache, user_id, json_dumps(built))
          /\ recOut' = call @@ [status |-> "returned", result |-> built]

GetUserProfileCall ==
    \E user_id \in Users, fault \in ProfileFaults :
        /\ GetUserProfile(user_id, fault)
        /\ UNCHANGED <<db, recCache, feedbackStore, rankVars, ensVars, helperVars, concVars, sentVars>>

\* A user completes courses or trades: the rows the queries return change.
HistoryChanges ==
    \E u \in Users, h \in {NoHistory, SomeHistory} :
        /\ db' = [db EXCEPT !.learning[u] = h.learning, !.trading[u] = h.trading]
        /\ db' # db
        /\ UNCHANGED <<profileCache, recCache, feedbackStore, recOut,
                       rankVars, ensVars, helperVars, concVars, sentVars>>

\* The catalogue is empty here: what is ranked does not matter to a profile.
InitProfile ==
    /\ InitRec
    /\ db.courses = {}
    /\ db.news = <<>>

NextProfile ==
    \/ GetUserProfileCall
    \/ HistoryChanges
    \/ GetRecommendationsCall
    \/ UpdateUserFeedbackCall
    \/ ExpireProfile
    \/ ExpireRecommendations
    \/ ExpireFeedback

SpecProfile == InitProfile /\ [][NextProfile]_vars

MaxSplit == 3           \* the most sentences of a text that is split

SentenceLengths == {1, 211, 212, 300, 600}

InitSplit ==
    /\ callIn \in {[fn |-> "_split_text", sentences |-> ss] :
                      ss \in SeqsUpTo(SentenceLengths, MaxSplit)}
    /\ callOut = [status |-> NotRun]
    /\ ensIn = NotRun
    /\ ensOut = [status |-> NotRun]
    /\ world = NotRun
    /\ now = 0
    /\ batch = [pc |-> "idle"]
    /\ sentCache = NoKeys
    /\ sentOut = [op |-> "none"]
    /\ RecIdle
    /\ rankIn = [recs |-> <<>>, limit |-> 0]
    /\ rankOut = NotRun
    /\ ConcIdle

SplitCall ==
    /\ callOut.status = NotRun
    /\ callOut' = [status |-> "returned", chunks |-> split_text(callIn.sentences)]
    /\ UNCHANGED <<callIn, rankVars, recVars, ensVars, sentVars, concVars>>

NextSplit == SplitCall

SpecSplit == InitSplit /\ [][NextSplit]_vars

RECURSIVE Flatten(_)
Flatten(chunks) == IF chunks = <<>> THEN <<>> ELSE Head(chunks) \o Flatten(Tail(chunks))

\* C16: no chunk is longer than max_len characters unless it consists of a
\* single sentence that is itself longer; the chunks hold every sentence of
\* the input exactly once, in the original order; and the packing is
\* greedy: the sentence that opens a chunk did not fit the one before.
C16_ChunksWithinMaxLen ==
    callOut.status = "returned" =>
        /\ \A i \in DOMAIN callOut.chunks :
              \/ ChunkLen(callOut.chunks[i]) <= max_length
              \/ Len(callOut.chunks[i]) = 1 /\ callOut.chunks[i][1] > max_length
        /\ Flatten(callOut.chunks) = callIn.sentences
        /\ \A i \in DOMAIN callOut.chunks :
              i > 1 => ChunkLen(callOut.chunks[i - 1] \o <<callOut.chunks[i][1]>>)
                          > max_length

\* C17: chunk gives the same chunks for the same input, at least one chunk
\* for every non-empty input, and no chunk at all only for empty input.
C17_AtLeastOneChunk ==
    callOut.status = "returned" =>
        /\ callOut.chunks = split_text(callIn.sentences)
        /\ callIn.sentences # <<>> => Len(callOut.chunks) >= 1
        /\ callOut.chunks = <<>> => callIn.sentences = <<>>

\* A text of three sentences gave two chunks, the second of one sentence.
C17_Witness ==
    /\ callOut.status = "returned"
    /\ Len(callIn.sentences) = 3
    /\ Len(callOut.chunks) = 2
    /\ Len(callOut.chunks[2]) = 1

(***************************************************************************)
(* Claims about the keyword rules.                                         *)
(***************************************************************************)
\* C18: the lexicon-rule adapter returns the category with the strictly
\* highest keyword count, with confidence equal to that category's share
\* of all matched keywords; when the highest count is tied it returns
\* neutral with confidence equal to the neutral share; when no keyword
\* matches it returns {neutral, 0.5}.
C18_RulesReturnShare ==
    ensOut.status # NotRun =>
        LET count == ensIn.counts
            total == count.positive + count.negative + count.neutral
            verdict == ensOut.results["rule_based"]
            highest(l) == \A o \in Labels \ {l} : count[o] < count[l]
        IN IF total = 0
           THEN verdict.sentiment = "neutral" /\ verdict.confidence = Half
           ELSE IF \E l \in Labels : highest(l)
           THEN LET l == CHOOSE x \in Labels : highest(x)
                IN /\ verdict.sentiment = l
                   /\ verdict.confidence = Frac(count[l], total)
           ELSE /\ verdict.sentiment = "neutral"
                /\ verdict.confidence = Frac(count.neutral, total)

(***************************************************************************)
(* Claims about the profile's preferred categories.                        *)
(***************************************************************************)
\* Completed courses of a category over all the rows of a history.
RECURSIVE CompletedIn(_, _)
CompletedIn(rows, category) ==
    IF rows = <<>> THEN 0
    ELSE (IF Head(rows).category = category THEN Head(rows).completed_courses ELSE 0)
           + CompletedIn(Tail(rows), category)

\* C19: preferred_categories holds at most 3 entries, each category at most
\* once, in descending order of the categories' completed-course counts
\* over the user's history; with at most 3 categories in the history it
\* holds them all.  The history has one row per (category, level).
C19_PreferredCategoriesDistinct ==
    (recOut.op = "_get_user_profile" /\ recOut.status = "returned") =>
        LET preferred == recOut.result.preferred_categories
            rows == recOut.result.learning_progress
            categories == {rows[i].category : i \in DOMAIN rows}
        IN /\ Len(preferred) <= 3
           /\ \A i, j \in DOMAIN preferred : i # j => preferred[i] # preferred[j]
           /\ \A i, j \in DOMAIN preferred :
                 i < j => CompletedIn(rows, preferred[i]) >= CompletedIn(rows, preferred[j])
           /\ Cardinality(categories) <= 3 =>
                 {preferred[i] : i \in DOMAIN preferred} = categories

(***************************************************************************)
(* _calculate_course_score on its own.  "none" stands for a language that  *)
(* is not there: a preference without 'preferred_language', a course whose *)
(* language is NULL; both .get() calls then give None.                     *)
(***************************************************************************)
Levels == {"beginner", "intermediate", "advanced"}

ScoredCourses ==
    [id : {1}, category : {"stocks", "bonds"}, level : Levels,
     avg_rating : {0, 25, 50}, review_count : {0, 5, 10, 200},
     days_old : {10, 29, 30, 89, 90}, language : {"en", "none"}]

ScoringProfiles ==
    [skill_level : Levels, preferred_categories : {<<>>, <<"stocks">>}]

ScoringPreferences == [preferred_language : {"en", "hi", "none"}]

InitScore ==
    /\ callIn \in [fn : {"_calculate_course_score"}, course : ScoredCourses,
                   user_profile : ScoringProfiles, preferences : ScoringPreferences]
    /\ callOut = [status |-> NotRun]
    /\ ensIn = NotRun
    /\ ensOut = [status |-> NotRun]
    /\ world = NotRun
    /\ now = 0
    /\ batch = [pc |-> "idle"]
    /\ sentCache = NoKeys
    /\ sentOut = [op |-> "none"]
    /\ RecIdle
    /\ rankIn = [recs |-> <<>>, limit |-> 0]
    /\ rankOut = NotRun
    /\ ConcIdle

ScoreCall ==
    /\ callOut.status = NotRun
    /\ callOut' = [status |-> "returned",
                   score |-> calculate_course_score(callIn.course, callIn.user_profile,
                                                    callIn.preferences)]
    /\ UNCHANGED <<callIn, rankVars, recVars, ensVars, sentVars, concVars>>

NextScore == ScoreCall

SpecScore == InitScore /\ [][NextScore]_vars

\* The terms of the claimed sum, in thousandths.
RefStep(level) == IF level = "advanced" THEN 3 ELSE IF level = "intermediate" THEN 2 ELSE 1

RefCourseSum(course, profile, preferences) ==
    LET above == RefStep(course.level) - RefStep(profile.skill_level)
    IN (IF \E i \in DOMAIN profile.preferred_categories :
              profile.preferred_categories[i] = course.category THEN 300 ELSE 0)
       + (CASE above = 0 -> 250 [] above = 1 -> 150 [] above = -1 -> 100 [] OTHER -> 0)
       + (course.avg_rating * 200) \div 50
       + (IF course.review_count >= 10 THEN 100 ELSE course.review_count * 10)
       + (IF course.days_old < 30 THEN 100 ELSE IF course.days_old < 90 THEN 50 ELSE 0)
       + (IF preferences.preferred_language = course.language THEN 100 ELSE 0)

\* C20: score_course returns min(1.0, s), s being the sum of 0.30 for a
\* preferred category, 0.25 / 0.15 / 0.10 for a course at / one step above /
\* one step below the user's level, (avg_rating / 5) * 0.20,
\* min(review_count / 100, 0.10), 0.10 / 0.05 for a course under 30 / 90
\* days old and 0.10 for a matching language; the result is in [0, 1].
C20_CourseScoreIsClampedSum ==
    callOut.status = "returned" =>
        LET s == RefCourseSum(callIn.course, callIn.user_profile, callIn.preferences)
        IN /\ callOut.score = IF s > 1000 THEN 1000 ELSE s
           /\ callOut.score >= 0
           /\ callOut.score <= 1000

\* Every term is at its maximum: the sum is 1.05 and the score is 1.0.
C20_Witness ==
    /\ callOut.status = "returned"
    /\ RefCourseSum(callIn.course, callIn.user_profile, callIn.preferences) = 1050
    /\ callOut.score = 1000

(***************************************************************************)
(* The cache key of analyze_sentiment is built from the text and the       *)
(* selector alone (line 99).                                               *)
(***************************************************************************)
\* C22: every analyze_sentiment call that returns gives a result with the
\* entities when include_entities is true and without them when it is false,
\* whatever calls preceded it, also when an earlier call for the same text
\* and selector with the other include_entities value filled the cache.
C22_EntitiesFollowTheRequest ==
    (sentOut.op = "analyze_sentiment" /\ sentOut.status = "returned") =>
        (sentOut.results.entities <=> sentOut.include_entities)

(***************************************************************************)
(* get_recommendations with the call it makes to _rank_recommendations     *)
(* (lines 55-57) put on record: rankIn is what the ranker was handed,      *)
(* rankOut what it gave back.  The route passes data.get('limit', 10) on   *)
(* as it came, so a limit below zero is among the requests.                *)
(***************************************************************************)
RequestedLimits == -2..MaxRecLimit

GetRecommendationsRanked(user_id, preferences, limit, order) ==
    LET user_profile == IF Holds(profileCache, user_id)
                        THEN json_loads(profileCache[user_id])
                        ELSE build_profile(user_id, db)
        courses == [i \in DOMAIN order |-> CourseRows[order[i]]]
    IN \E handed \in {all_recommendations(user_profile, courses, db.news,
                                          preferences, limit)} :
        /\ GetRecommendations(user_id, preferences, limit, "none", order)
        /\ rankIn' = [recs |-> handed, limit |-> limit]
        /\ rankOut' = rank_recommendations(handed, limit)

GetRecommendationsRankedCall ==
    \E user_id \in Users, language \in Languages, limit \in RequestedLimits,
       order \in Orderings(db.courses) :
        /\ GetRecommendationsRanked(user_id, [preferred_language |-> language],
                                    limit, order)
        /\ UNCHANGED <<db, feedbackStore, ensVars, helperVars, concVars, sentVars>>

NextHalves ==
    \/ GetRecommendationsRankedCall
    \/ ExpireProfile
    \/ ExpireRecommendations

SpecHalves == InitRec /\ [][NextHalves]_vars

\* What the claim says of one call, `half` being the most it allows of a type.
HalvesHold(half) ==
    /\ rankIn.limit = recOut.limit
    /\ rankOut = recOut.result
    /\ CountType(rankIn.recs, "course") <= half
    /\ CountType(rankIn.recs, "news") <= half
    /\ CountType(recOut.result, "course") <= half
    /\ CountType(recOut.result, "news") <= half
    /\ Len(recOut.result) <= 2 * half
    /\ recOut.limit % 2 = 1 => Len(recOut.result) # recOut.limit
    /\ recOut.limit = 1 => recOut.result = <<>>

\* C23: for a limit of zero or more, get_recommendations hands the ranker at
\* most floor(limit/2) course candidates and at most floor(limit/2) news
\* candidates, its result holds at most floor(limit/2) items of each type
\* and 2*floor(limit/2) in all (never `limit` items for an odd limit, none
\* for limit 1), and the ranker rejects none of the candidates it was handed.
C23_HalvesForLimitsFromZero ==
    (Returned(recOut, "get_recommendations") /\ recOut.limit >= 0) =>
        /\ HalvesHold(recOut.limit \div 2)
        /\ Len(rankOut) = Len(rankIn.recs)

\* The statement for every limit, a limit below zero allowing no candidate.
C23_HalvesForEveryLimit ==
    Returned(recOut, "get_recommendations") =>
        HalvesHold(IF recOut.limit >= 0 THEN recOut.limit \div 2 ELSE 0)

\* Limit 3 with two courses and two articles on offer: one of each is handed
\* over and returned.
C23_Witness ==
    /\ Returned(recOut, "get_recommendations")
    /\ recOut.limit = 3
    /\ db.courses = {1, 2}
    /\ Len(db.news) = 2
    /\ Len(rankIn.recs) = 2
    /\ Len(recOut.result) = 2

(***************************************************************************)
(* What one update_user_feedback call leaves alone.                        *)
(***************************************************************************)
\* The key k is as it was: absent before and after, or holding the same blob.
Untouched(before, after, k) ==
    /\ Holds(before, k) <=> Holds(after, k)
    /\ Holds(before, k) => after[k] = before[k]

Threads == {1, 2}
MaxFeedbackCalls == 1   \* update_user_feedback calls in one run
InitConc ==
    /\ db \in {d \in Databases : d.courses = {}}
    /\ profileCache = NoKeys
    /\ recCache = NoKeys
    /\ feedbackStore = NoKeys
    /\ recOut = [op |-> "none"]
    /\ threads = [t \in Threads |-> [pc |-> "idle"]]
    /\ feedbackLog = [began |-> [u \in Users |-> 0],
                      completed |-> [u \in Users |-> {}],
                      stamp |-> NoKeys]
    /\ rankIn = [recs |-> <<>>, limit |-> 0]
    /\ rankOut = NotRun
    /\ SentIdle

\* A request enters get_recommendations, line 32.
GetBegin(t) ==
    /\ threads[t].pc = "idle"
    /\ \E user_id \in Users, language \in Languages, limit \in {2} :
          threads' = [threads EXCEPT ![t] =
                         [pc |-> "profile_get", user_id |-> user_id,
                          preferences |-> [preferred_language |-> language],
                          limit |-> limit]]
    /\ UNCHANGED <<profileCache, recCache, feedbackStore, recOut, feedbackLog,
                    db, rankVars, ensVars, helperVars, sentVars>>

\* _get_user_profile, lines 71-75: the redis get and the return of a hit.
ProfileGet(t) ==
    LET self == threads[t]
    IN /\ self.pc = "profile_get"
       /\ threads' = [threads EXCEPT ![t] =
             IF Holds(profileCache, self.user_id)
             THEN [pc |-> "compute",
                   user_profile |-> json_loads(profileCache[self.user_id])] @@ self
             ELSE [self EXCEPT !.pc = "profile_build"]]
       /\ UNCHANGED <<profileCache, recCache, feedbackStore, recOut, feedbackLog,
                    db, rankVars, ensVars, helperVars, sentVars>>

\* _get_user_profile, lines 76-125: the SELECTs and the setex of the profile.
ProfileBuild(t) ==
    LET self == threads[t]
    IN /\ self.pc = "profile_build"
       /\ \E built \in {build_profile(self.user_id, db)} :
             /\ profileCache' = redis_setex(profileCache, self.user_id, json_dumps(built))
             /\ threads' = [threads EXCEPT ![t] =
                               [pc |-> "compute", user_profile |-> built] @@ self]
       /\ UNCHANGED <<recCache, feedbackStore, recOut, feedbackLog,
                    db, rankVars, ensVars, helperVars, sentVars>>

\* Lines 42-57: the candidates are read and ranked.
Compute(t) ==
    LET self == threads[t]
    IN /\ self.pc = "compute"
       /\ \E order \in Orderings(db.courses) :
             threads' = [threads EXCEPT ![t] =
                 [pc |-> "cache",
                  ranked_recommendations |->
                      compute_recommendations(
                          self.user_profile,
                          [i \in DOMAIN order |-> CourseRows[order[i]]],
                          db.news, self.preferences, self.limit),
                  began |-> feedbackLog.began[self.user_id]] @@ self]
       /\ UNCHANGED <<profileCache, recCache, feedbackStore, recOut, feedbackLog,
                    db, rankVars, ensVars, helperVars, sentVars>>

\* Lines 59-63 with _cache_recommendations: the setex of the ranked set, and
\* the return.
CacheRecommendations(t) ==
    LET self == threads[t]
    IN /\ self.pc = "cache"
       /\ recCache' = redis_setex(recCache, self.user_id,
                                  json_dumps(self.ranked_recommendations))
       /\ feedbackLog' = [feedbackLog EXCEPT
                             !.stamp = redis_setex(@, self.user_id, self.began)]
       /\ recOut' = [op |-> "get_recommendations", user_id |-> self.user_id,
                     preferences |-> self.preferences, limit |-> self.limit,
                     status |-> "returned", result |-> self.ranked_recommendations]
       /\ threads' = [threads EXCEPT ![t] = [pc |-> "idle"]]
       /\ UNCHANGED <<profileCache, feedbackStore, db, rankVars, ensVars, helperVars, sentVars>>

\* A request enters update_user_feedback, line 433.
FeedbackBegin(t) ==
    /\ threads[t].pc = "idle"
    /\ \E user_id \in Users, item_id \in FeedbackItems, feedback_type \in FeedbackTypes :
          /\ feedbackLog.began[1] + feedbackLog.began[2] < MaxFeedbackCalls
          /\ threads' = [threads EXCEPT ![t] =
                            [pc |-> "feedback_setex", user_id |-> user_id,
                             item_id |-> item_id, feedback_type |-> feedback_type,
                             number |-> feedbackLog.began[user_id] + 1]]
          /\ feedbackLog' = [feedbackLog EXCEPT !.began[user_id] = @ + 1]
    /\ UNCHANGED <<profileCache, recCache, feedbackStore, recOut,
                 db, rankVars, ensVars, helperVars, sentVars>>

\* Lines 450-456: the setex of the feedback event.
FeedbackSetex(t) ==
    LET self == threads[t]
    IN /\ self.pc = "feedback_setex"
       /\ feedbackStore' =
             redis_setex(feedbackStore, <<self.user_id, self.item_id>>,
                         json_dumps([user_id |-> self.user_id, item_id |-> self.item_id,
                                     feedback_type |-> self.feedback_type]))
       /\ threads' = [threads EXCEPT ![t] = [self EXCEPT !.pc = "feedback_delete"]]
       /\ UNCHANGED <<profileCache, recCache, recOut, feedbackLog,
                    db, rankVars, ensVars, helperVars, sentVars>>

\* Lines 458-460: the delete of the user's ranked set, and the return.
FeedbackDelete(t) ==
    LET self == threads[t]
    IN /\ self.pc = "feedback_delete"
       /\ recCache' = redis_delete(recCache, self.user_id)
       /\ feedbackLog' = [feedbackLog EXCEPT
                             !.stamp = redis_delete(@, self.user_id),
                             !.completed[self.user_id] = @ \cup {self.number}]
       /\ recOut' = [op |-> "update_user_feedback", user_id |-> self.user_id,
                     item_id |-> self.item_id, fault |-> "none", status |-> "returned"]
       /\ threads' = [threads EXCEPT ![t] = [pc |-> "idle"]]
       /\ UNCHANGED <<profileCache, feedbackStore, db, rankVars, ensVars, helperVars, sentVars>>

NextConc ==
    \/ \E t \in Threads : GetBegin(t)
    \/ \E t \in Threads : ProfileGet(t)
    \/ \E t \in Threads : ProfileBuild(t)
    \/ \E t \in Threads : Compute(t)
    \/ \E t \in Threads : CacheRecommendations(t)
    \/ \E t \in Threads : FeedbackBegin(t)
    \/ \E t \in Threads : FeedbackSetex(t)
    \/ \E t \in Threads : FeedbackDelete(t)

SpecConc == InitConc /\ [][NextConc]_vars

\* C21: under concurrent requests for the same user, once an
\* update_user_feedback call has completed the cache never afterwards holds,
\* under that user's recommendations key, a ranked set that was computed
\* before that feedback call began.
C21_NoStaleSetAfterFeedback ==
    \A u \in Users :
        Holds(recCache, u) =>
            \A number \in feedbackLog.completed[u] : number <= feedbackLog.stamp[u]

====
